---- MODULE Spec2Model ----
(***************************************************************************)
(* Model of darcien/gempa_bumi: the BMKG felt-earthquake feed normalizer,  *)
(* the key-based merge of fresh records into the persisted collection      *)
(* (bmkg_felt_utils.ts) and the sync pipeline (bmkg_felt.ts).              *)
(*                                                                         *)
(* JSON objects are functions from field names to values; an optional      *)
(* field that is absent is absent from the DOMAIN.  A JavaScript Map is a  *)
(* sequence of [key, value] entries in insertion order.                    *)
(***************************************************************************)
EXTENDS Integers, Sequences, FiniteSets, TLC

VARIABLES
    \* ---- merge harness: one call of mergeFeltEarthquakes and a second
    \*      call that merges the same fresh collection into its output ----
    staleIn,        \* staleEarthquakes argument
    freshIn,        \* freshEarthquakes argument
    keyIn,          \* options.mergeKey
    result,         \* value returned by the first call
    result2,        \* value returned by the second call
    phase,          \* "input" | "merged" | "remerged" ("off" in the pipeline)
    \* ---- pipeline: the persisted file and the locals of each run ----
    snapshot,           \* content of ./earthquakes/bmkg_earthquakes_felt.json
    everPersisted,      \* history: the ids of all records ever written to the file
    pc,                 \* where each run of syncFeltEarthquakes is
    json,               \* const json = await res.json()
    freshEarthquakes,   \* const freshEarthquakes = bmkgApiResSchema.parse(json)
    staleEarthquakes,   \* const staleEarthquakes = await readJsonFile(...)
    updated,            \* const updated = mergeFeltEarthquakes(...)
    steps,              \* the statements each running run has completed, in order
    lastParse,          \* record of the latest call of bmkgApiResSchema.parse
    \* ---- calls of the pure functions on their own ----
    earthquakeAt1,      \* argument of a call of computeBmkgEarthquakeId
    earthquakeAt2,      \* argument of a second call
    id1,                \* value returned by the first call
    id2,                \* value returned by the second call
    rawFeed,            \* argument of bmkgApiResSchema.parse
    now1,               \* now of a first createBmkgApiResSchema(now)
    now2,               \* now of a second createBmkgApiResSchema(now)
    parsed1,            \* outcome of parsing rawFeed with the first schema
    parsed2,            \* outcome of parsing rawFeed with the second schema
    fnPhase,            \* "off" | "input" | "done"
    schemaKind,         \* which schema is applied: "coordinates" | "depth" ("off")
    schemaArg,          \* the string given to its parse
    schemaResult        \* what the parse returned

mergeVars == <<staleIn, freshIn, keyIn, result, result2, phase>>

pipelineVars ==
    <<snapshot, everPersisted, pc, json, freshEarthquakes, staleEarthquakes, updated,
      steps, lastParse>>

idVars == <<earthquakeAt1, earthquakeAt2, id1, id2>>

normVars == <<rawFeed, now1, now2, parsed1, parsed2>>

textVars == <<schemaKind, schemaArg, schemaResult>>

fnVars == <<idVars, normVars, fnPhase, textVars>>

vars == <<staleIn, freshIn, keyIn, result, result2, phase,
          snapshot, everPersisted, pc, json, freshEarthquakes, staleEarthquakes,
          updated, steps, lastParse, fnVars>>

-----------------------------------------------------------------------------
(* Bounds and sample values                                                *)

\* Total number of records over the two collections given to one merge.
MaxRecords == 3

\* type MergeKey
MergeKeys == {"bmkgEarthquakeId", "fingerprintSha1"}

\* Sample key values (the ones of the merge tests).
Ids == {"20251224123034", "20251223111036"}
Fingerprints == {"abc123", "def456"}

\* type ErroneousDataReason
ErroneousDataReasons == {"FUTURE_EARTHQUAKE"}

\* The empty object {}.
EmptyObject == [k \in {} |-> k]

\* meta?: { erroneousDataReason?: ErroneousDataReason }
MetaValues ==
    {EmptyObject} \cup {[erroneousDataReason |-> x] : x \in ErroneousDataReasons}

\* type Earthquake, restricted to the two key fields and the optional meta.
Earthquake ==
    [bmkgEarthquakeId : Ids, fingerprintSha1 : Fingerprints]
    \cup [bmkgEarthquakeId : Ids, fingerprintSha1 : Fingerprints, meta : MetaValues]

\* Fields of a persisted record whose value is itself a plain object: meta,
\* and the rawData of the records written by the earlier scrapers.
ObjectFields == {"meta", "rawData"}

\* A field holding an array (no field of type Earthquake does; the persisted
\* file may).
ArrayFields == {"stations"}

\* Array<Earthquake> of a given length, and of at most a given length.
ArraysOfLen(S, n) == [1..n -> S]

-----------------------------------------------------------------------------
(* @std/collections deepMerge with DEEP_MERGE_OPTIONS                      *)

\* mergeObjects(left, right) for two plain objects whose members are
\* scalars: the members of both, the right one winning.
mergeObjects(left, right) ==
    [k \in DOMAIN left \cup DOMAIN right |->
        IF k \in DOMAIN right THEN right[k] ELSE left[k]]

\* A mutant of deepMerge: Object.assign-like full replacement by the fresh record.
deepMergeReplace(record, other) == other

\* A mutant of deepMerge: the default options, under which arrays are
\* concatenated.
deepMergeDefaultOptions(record, other) ==
    [k \in DOMAIN record \cup DOMAIN other |->
        IF k \notin DOMAIN other THEN record[k]
        ELSE IF k \notin DOMAIN record THEN other[k]
        ELSE IF k \in ObjectFields THEN mergeObjects(record[k], other[k])
        ELSE IF k \in ArrayFields THEN record[k] \o other[k]
        ELSE other[k]]

\* A mutant of deepMerge: the stale value wins on shared fields.
deepMergeKeepOld(record, other) ==
    [k \in DOMAIN record \cup DOMAIN other |->
        IF k \in DOMAIN record THEN record[k] ELSE other[k]]

\* deepMerge(record, other, DEEP_MERGE_OPTIONS): every key of either record;
\* a key `other` lacks keeps record's value; two plain objects are merged
\* recursively; anything else takes other's value.
deepMerge(record, other) ==
    [k \in DOMAIN record \cup DOMAIN other |->
        IF k \notin DOMAIN other THEN record[k]
        ELSE IF k \in DOMAIN record /\ k \in ObjectFields
             THEN mergeObjects(record[k], other[k])
             ELSE other[k]]

-----------------------------------------------------------------------------
(* JavaScript Map: a sequence of entries in insertion order                *)

MapHas(m, key) == \E i \in 1..Len(m) : m[i].key = key

MapIndex(m, key) == CHOOSE i \in 1..Len(m) : m[i].key = key

\* Map.prototype.get; only used where MapHas holds.
MapGet(m, key) == m[MapIndex(m, key)].value

\* A mutant of MapSet: the entry is appended even when the key is already there.
MapSetAppend(m, key, value) == Append(m, [key |-> key, value |-> value])

\* Map.prototype.set: an existing key keeps its position, a new one is appended.
MapSet(m, key, value) ==
    IF MapHas(m, key)
    THEN [m EXCEPT ![MapIndex(m, key)] = [key |-> key, value |-> value]]
    ELSE Append(m, [key |-> key, value |-> value])

\* A mutant of MapValues: the values come out last entry first.
MapValuesReversed(m) == [i \in 1..Len(m) |-> m[Len(m) + 1 - i].value]

\* Array.from(merged.values())
MapValues(m) == [i \in 1..Len(m) |-> m[i].value]

-----------------------------------------------------------------------------
(* mergeFeltEarthquakes                                                    *)

\* The value undefined, as a Map key.
Undefined == "<undefined>"

\* A mutant of Get: the id is the key whatever the merge key is.
GetIdAlways(earthquake, mergeKey) == earthquake.bmkgEarthquakeId

\* earthquake[mergeKey]: undefined when the record has no such property.
Get(earthquake, mergeKey) ==
    IF mergeKey \in DOMAIN earthquake THEN earthquake[mergeKey] ELSE Undefined

\* A mutant of NewMapFromStale: the first stale record of a key is kept.
RECURSIVE NewMapFromStaleKeepFirst(_, _, _)
NewMapFromStaleKeepFirst(staleArr, mergeKey, n) ==
    IF n = 0 THEN <<>>
    ELSE LET m == NewMapFromStaleKeepFirst(staleArr, mergeKey, n - 1)
         IN IF MapHas(m, Get(staleArr[n], mergeKey)) THEN m
            ELSE MapSet(m, Get(staleArr[n], mergeKey), staleArr[n])

\* new Map(staleEarthquakes.map((earthquake) => [earthquake[mergeKey], earthquake]))
RECURSIVE NewMapFromStale(_, _, _)
NewMapFromStale(staleArr, mergeKey, n) ==
    IF n = 0 THEN <<>>
    ELSE MapSet(NewMapFromStale(staleArr, mergeKey, n - 1),
                Get(staleArr[n], mergeKey), staleArr[n])

\* A mutant of MergeOne: a fresh record is always added as a new entry.
MergeOneAlwaysAppend(merged, fresh, mergeKey) ==
    Append(merged, [key |-> Get(fresh, mergeKey), value |-> fresh])

\* A mutant of MergeOne: a fresh record with a new key is put in front.
MergeOnePrepend(merged, fresh, mergeKey) ==
    LET key == Get(fresh, mergeKey) IN
    IF MapHas(merged, key)
    THEN MapSet(merged, key, deepMerge(MapGet(merged, key), fresh))
    ELSE <<[key |-> key, value |-> fresh]>> \o merged

\* The body of freshEarthquakes.forEach for one fresh record.
MergeOne(merged, fresh, mergeKey) ==
    LET key == Get(fresh, mergeKey) IN
    IF MapHas(merged, key)
    THEN MapSet(merged, key, deepMerge(MapGet(merged, key), fresh))
    ELSE MapSet(merged, key, fresh)

\* freshEarthquakes.forEach(...) over the first n fresh records.
RECURSIVE ForEachFresh(_, _, _, _)
ForEachFresh(merged, freshArr, mergeKey, n) ==
    IF n = 0 THEN merged
    ELSE MergeOne(ForEachFresh(merged, freshArr, mergeKey, n - 1),
                  freshArr[n], mergeKey)

\* A mutant of mergeFeltEarthquakes: records absent from the fresh collection are dropped.
mergeFeltEarthquakesFreshOnly(staleArr, freshArr, mergeKey) ==
    MapValues(ForEachFresh(<<>>, freshArr, mergeKey, Len(freshArr)))

mergeFeltEarthquakes(staleArr, freshArr, mergeKey) ==
    LET merged0 == NewMapFromStale(staleArr, mergeKey, Len(staleArr))
        merged  == ForEachFresh(merged0, freshArr, mergeKey, Len(freshArr))
    IN MapValues(merged)

-----------------------------------------------------------------------------
(* Text helpers: a string is read character by character                   *)

Char(s, i) == SubSeq(s, i, i)

IsDigit(c) == c \in {"0", "1", "2", "3", "4", "5", "6", "7", "8", "9"}

DigitValue(c) == CHOOSE d \in 0..9 : ToString(d) = c

\* /^\d+$/
IsDigits(s) == Len(s) >= 1 /\ \A i \in 1..Len(s) : IsDigit(Char(s, i))

\* The number a string of digits writes.
RECURSIVE DigitsValue(_)
DigitsValue(s) ==
    IF Len(s) = 0 THEN 0
    ELSE 10 * DigitsValue(SubSeq(s, 1, Len(s) - 1)) + DigitValue(Char(s, Len(s)))

IndexesOf(s, c) == {i \in 1..Len(s) : Char(s, i) = c}

RECURSIVE Pow10(_)
Pow10(n) == IF n = 0 THEN 1 ELSE 10 * Pow10(n - 1)

-----------------------------------------------------------------------------
(* Numbers: a decimal number is [m, e], the value m / 10^e, with e the     *)
(* least possible; NaN is its own value                                    *)

NaN == [m |-> 0, e |-> -1]

RECURSIVE Normalize(_, _)
Normalize(m, e) ==
    IF e > 0 /\ m % 10 = 0 THEN Normalize(m \div 10, e - 1) ELSE [m |-> m, e |-> e]

\* zod's pattern of z.number() inside a template literal: -?\d+(?:\.\d+)?
IsNumberText(s) ==
    LET body == IF Len(s) >= 1 /\ Char(s, 1) = "-" THEN SubSeq(s, 2, Len(s)) ELSE s
        dots == IndexesOf(body, ".")
    IN IF dots = {} THEN IsDigits(body)
       ELSE /\ Cardinality(dots) = 1
            /\ LET d == CHOOSE i \in dots : TRUE
               IN /\ IsDigits(SubSeq(body, 1, d - 1))
                  /\ IsDigits(SubSeq(body, d + 1, Len(body)))

\* What parseFloat accepts as a whole: [+-]? digits [. digits?]  or  [+-]? . digits
IsFloatLiteral(s) ==
    LET signed == Len(s) >= 1 /\ Char(s, 1) \in {"-", "+"}
        body   == IF signed THEN SubSeq(s, 2, Len(s)) ELSE s
        dots   == IndexesOf(body, ".")
    IN IF dots = {} THEN IsDigits(body)
       ELSE /\ Cardinality(dots) = 1
            /\ LET d    == CHOOSE i \in dots : TRUE
                   int  == SubSeq(body, 1, d - 1)
                   frac == SubSeq(body, d + 1, Len(body))
               IN /\ int = "" \/ IsDigits(int)
                  /\ frac = "" \/ IsDigits(frac)
                  /\ int # "" \/ frac # ""

\* The value of a float literal.
FloatLiteralValue(s) ==
    LET neg    == Len(s) >= 1 /\ Char(s, 1) = "-"
        signed == Len(s) >= 1 /\ Char(s, 1) \in {"-", "+"}
        body   == IF signed THEN SubSeq(s, 2, Len(s)) ELSE s
        dots   == IndexesOf(body, ".")
        d      == IF dots = {} THEN Len(body) + 1 ELSE CHOOSE i \in dots : TRUE
        int    == SubSeq(body, 1, d - 1)
        frac   == SubSeq(body, d + 1, Len(body))
        abs    == DigitsValue(int) * Pow10(Len(frac)) + DigitsValue(frac)
    IN Normalize(IF neg THEN 0 - abs ELSE abs, Len(frac))

\* String.prototype.trimStart for the blank.
RECURSIVE TrimStart(_)
TrimStart(s) ==
    IF Len(s) >= 1 /\ Char(s, 1) = " " THEN TrimStart(SubSeq(s, 2, Len(s))) ELSE s

\* parseFloat: the longest prefix, after leading blanks, that is a float
\* literal; NaN when there is none.
parseFloat(s) ==
    LET t    == TrimStart(s)
        lens == {n \in 1..Len(t) : IsFloatLiteral(SubSeq(t, 1, n))}
    IN IF lens = {} THEN NaN
       ELSE FloatLiteralValue(SubSeq(t, 1, CHOOSE n \in lens : \A k \in lens : k <= n))

-----------------------------------------------------------------------------
(* Date: an instant is [day, ms], the days since 1970-01-01 and the        *)
(* milliseconds into that UTC day                                          *)

MsPerDay == 24 * 60 * 60 * 1000

\* const HOUR = 3_600_000
HOUR == 3600000

\* const WIB_OFFSET = 7 * HOUR
WIB_OFFSET == 7 * HOUR

IsLeapYear(y) == y % 4 = 0 /\ (y % 100 # 0 \/ y % 400 = 0)

DaysInMonth(y, m) ==
    IF m = 2 THEN (IF IsLeapYear(y) THEN 29 ELSE 28)
    ELSE IF m \in {4, 6, 9, 11} THEN 30 ELSE 31

\* Days since 1970-01-01 of a civil date (proleptic Gregorian calendar).
DaysFromCivil(year, month, dayOfMonth) ==
    LET y   == IF month <= 2 THEN year - 1 ELSE year
        era == y \div 400
        yoe == y - era * 400
        mp  == IF month > 2 THEN month - 3 ELSE month + 9
        doy == (153 * mp + 2) \div 5 + dayOfMonth - 1
        doe == yoe * 365 + yoe \div 4 - yoe \div 100 + doy
    IN era * 146097 + doe - 719468

\* The civil date of a day number: what getUTCFullYear, getUTCMonth() + 1
\* and getUTCDate read.
CivilFromDays(days) ==
    LET z   == days + 719468
        era == z \div 146097
        doe == z - era * 146097
        yoe == (doe - doe \div 1460 + doe \div 36524 - doe \div 146096) \div 365
        doy == doe - (365 * yoe + yoe \div 4 - yoe \div 100)
        mp  == (5 * doy + 2) \div 153
        d   == doy - (153 * mp + 2) \div 5 + 1
        m   == IF mp < 10 THEN mp + 3 ELSE mp - 9
    IN [year |-> IF m <= 2 THEN yoe + era * 400 + 1 ELSE yoe + era * 400,
        month |-> m, date |-> d]

\* Placeholder of a Date variable that holds nothing yet.
NoDate == [day |-> 0, ms |-> 0]

\* new Date(date.getTime() + delta)
AddMs(t, delta) ==
    LET total == t.ms + delta
    IN [day |-> t.day + total \div MsPerDay, ms |-> total % MsPerDay]

\* A mutant of After: an instant is also after itself.
AfterOrEqual(a, b) == a.day > b.day \/ (a.day = b.day /\ a.ms >= b.ms)

\* a > b on Date objects
After(a, b) == a.day > b.day \/ (a.day = b.day /\ a.ms > b.ms)

getUTCHours(t) == t.ms \div HOUR
getUTCMinutes(t) == (t.ms \div 60000) % 60
getUTCSeconds(t) == (t.ms \div 1000) % 60
getUTCMilliseconds(t) == t.ms % 1000

\* String(part).padStart(width, "0")
RECURSIVE padStart(_, _)
padStart(text, width) ==
    IF Len(text) >= width THEN text ELSE padStart("0" \o text, width)

\* The year of Date.prototype.toISOString: four digits for the years 0 to
\* 9999, otherwise a sign and six digits.
IsoYear(y) ==
    IF y < 0 THEN "-" \o padStart(ToString(0 - y), 6)
    ELSE IF y > 9999 THEN "+" \o padStart(ToString(y), 6)
    ELSE padStart(ToString(y), 4)

\* Date.prototype.toISOString
toISOString(t) ==
    LET c == CivilFromDays(t.day)
    IN IsoYear(c.year) \o "-" \o padStart(ToString(c.month), 2)
       \o "-" \o padStart(ToString(c.date), 2)
       \o "T" \o padStart(ToString(getUTCHours(t)), 2)
       \o ":" \o padStart(ToString(getUTCMinutes(t)), 2)
       \o ":" \o padStart(ToString(getUTCSeconds(t)), 2)
       \o "." \o padStart(ToString(getUTCMilliseconds(t)), 3) \o "Z"

\* Two digits at positions i and i + 1.
IsTwoDigits(s, i) == i + 1 <= Len(s) /\ IsDigits(SubSeq(s, i, i + 1))
TwoDigits(s, i) == DigitsValue(SubSeq(s, i, i + 1))

\* [+-](?:[01]\d|2[0-3]):[0-5]\d  or  Z
IsZone(z) ==
    \/ z = "Z"
    \/ /\ Len(z) = 6
       /\ Char(z, 1) \in {"+", "-"}
       /\ IsTwoDigits(z, 2) /\ TwoDigits(z, 2) <= 23
       /\ Char(z, 4) = ":"
       /\ IsTwoDigits(z, 5) /\ TwoDigits(z, 5) <= 59

\* The number of digits written from position i on.
RECURSIVE DigitRun(_, _)
DigitRun(s, i) ==
    IF i <= Len(s) /\ IsDigit(Char(s, i)) THEN 1 + DigitRun(s, i + 1) ELSE 0

HasSeconds(s) == Len(s) >= 17 /\ Char(s, 17) = ":"
HasFraction(s) == HasSeconds(s) /\ Len(s) >= 20 /\ Char(s, 20) = "."

\* Where the zone designator starts: after HH:MM, HH:MM:SS or HH:MM:SS.fff
ZoneStart(s) ==
    IF HasFraction(s) THEN 21 + DigitRun(s, 21)
    ELSE IF HasSeconds(s) THEN 20 ELSE 17

\* z.iso.datetime({ offset: true }): a valid calendar date, "T", HH:MM with
\* optional :SS and optional .fraction, then Z or a +HH:MM / -HH:MM offset.
IsIsoDatetime(s) ==
    /\ Len(s) >= 17
    /\ IsDigits(SubSeq(s, 1, 4))
    /\ Char(s, 5) = "-" /\ IsTwoDigits(s, 6)
    /\ Char(s, 8) = "-" /\ IsTwoDigits(s, 9)
    /\ TwoDigits(s, 6) \in 1..12
    /\ TwoDigits(s, 9) \in 1..DaysInMonth(DigitsValue(SubSeq(s, 1, 4)), TwoDigits(s, 6))
    /\ Char(s, 11) = "T"
    /\ IsTwoDigits(s, 12) /\ TwoDigits(s, 12) <= 23
    /\ Char(s, 14) = ":"
    /\ IsTwoDigits(s, 15) /\ TwoDigits(s, 15) <= 59
    /\ (HasSeconds(s) => IsTwoDigits(s, 18) /\ TwoDigits(s, 18) <= 59)
    /\ (HasFraction(s) => DigitRun(s, 21) >= 1)
    /\ ZoneStart(s) <= Len(s)
    /\ IsZone(SubSeq(s, ZoneStart(s), Len(s)))

\* z.coerce.date() on a validated text: new Date(text).
DateFromIso(s) ==
    LET zone    == SubSeq(s, ZoneStart(s), Len(s))
        seconds == IF HasSeconds(s) THEN TwoDigits(s, 18) ELSE 0
        \* the first three digits of the fraction are the milliseconds
        millis  == IF HasFraction(s)
                   THEN DigitsValue(SubSeq(SubSeq(s, 21, 20 + DigitRun(s, 21)) \o "00", 1, 3))
                   ELSE 0
        offset  == IF zone = "Z" THEN 0
                   ELSE (IF Char(zone, 1) = "-" THEN -1 ELSE 1)
                        * (TwoDigits(zone, 2) * HOUR + TwoDigits(zone, 5) * 60000)
        local   == [day |-> DaysFromCivil(DigitsValue(SubSeq(s, 1, 4)),
                                          TwoDigits(s, 6), TwoDigits(s, 9)),
                    ms  |-> TwoDigits(s, 12) * HOUR + TwoDigits(s, 15) * 60000
                            + seconds * 1000 + millis]
    IN AddMs(local, 0 - offset)

-----------------------------------------------------------------------------
(* computeBmkgEarthquakeId, getBmkgShakeMapUrl                             *)

padTimeComponent(part) == padStart(ToString(part), 2)

\* A mutant of computeBmkgEarthquakeId: the id is formatted in UTC.
computeBmkgEarthquakeIdUtc(earthquakeAt) ==
    LET c == CivilFromDays(earthquakeAt.day)
    IN ToString(c.year) \o padTimeComponent(c.month) \o padTimeComponent(c.date)
       \o padTimeComponent(getUTCHours(earthquakeAt))
       \o padTimeComponent(getUTCMinutes(earthquakeAt))
       \o padTimeComponent(getUTCSeconds(earthquakeAt))

computeBmkgEarthquakeId(earthquakeAt) ==
    LET wibDate == AddMs(earthquakeAt, WIB_OFFSET)
        c       == CivilFromDays(wibDate.day)
    IN ToString(c.year) \o padTimeComponent(c.month) \o padTimeComponent(c.date)
       \o padTimeComponent(getUTCHours(wibDate))
       \o padTimeComponent(getUTCMinutes(wibDate))
       \o padTimeComponent(getUTCSeconds(wibDate))

getBmkgShakeMapUrl(bmkgEarthquakeId) ==
    "https://static.bmkg.go.id/" \o bmkgEarthquakeId \o ".mmi.jpg"

-----------------------------------------------------------------------------
(* coordinatesSchema, depthSchema                                          *)

\* z.templateLiteral([z.number(), ",", z.number()])
IsCoordinatesText(s) ==
    LET commas == IndexesOf(s, ",") IN
    /\ Cardinality(commas) = 1
    /\ LET c == CHOOSE i \in commas : TRUE
       IN /\ IsNumberText(SubSeq(s, 1, c - 1))
          /\ IsNumberText(SubSeq(s, c + 1, Len(s)))

\* A mutant of coordinatesTransform: the two parts are taken in the other order.
coordinatesTransformSwapped(arg) ==
    LET c == CHOOSE i \in IndexesOf(arg, ",") : TRUE
    IN [latitude  |-> parseFloat(SubSeq(arg, c + 1, Len(arg))),
        longitude |-> parseFloat(SubSeq(arg, 1, c - 1))]

\* const [rLatitude, rLongitude] = arg.split(","), then parseFloat of each
coordinatesTransform(arg) ==
    LET c == CHOOSE i \in IndexesOf(arg, ",") : TRUE
    IN [latitude  |-> parseFloat(SubSeq(arg, 1, c - 1)),
        longitude |-> parseFloat(SubSeq(arg, c + 1, Len(arg)))]

\* What a failed parse of one of the two string schemas returns.
Rejected == [success |-> FALSE]

\* coordinatesSchema.parse(s): the template literal, then the transform
coordinatesSchema(s) ==
    IF IsCoordinatesText(s)
    THEN [success |-> TRUE, data |-> coordinatesTransform(s)]
    ELSE Rejected

\* z.templateLiteral([z.number(), " km"])
IsDepthText(s) ==
    /\ Len(s) > 3
    /\ SubSeq(s, Len(s) - 2, Len(s)) = " km"
    /\ IsNumberText(SubSeq(s, 1, Len(s) - 3))

\* parseFloat(str.slice(0, -3))
depthTransform(str) == parseFloat(SubSeq(str, 1, Len(str) - 3))

\* A mutant of depthSchema: the text is not validated before the transform.
depthSchemaUnvalidated(s) ==
    IF Len(s) <= 3 THEN Rejected
    ELSE [success |-> TRUE, data |-> depthTransform(s)]

\* depthSchema.parse(s): the template literal, then the transform
depthSchema(s) ==
    IF IsDepthText(s) THEN [success |-> TRUE, data |-> depthTransform(s)] ELSE Rejected

-----------------------------------------------------------------------------
(* Raw feed: a JSON value is [t, v], its JSON type and its text            *)

JsonString(text) == [t |-> "string", v |-> text]
JsonNumber(text) == [t |-> "number", v |-> text]

IsString(entry, field) == field \in DOMAIN entry /\ entry[field].t = "string"

\* One element of Infogempa.gempa with every field a string.  Tanggal, Jam,
\* Lintang and Bujur are z.unknown() and never read: they are left out.
RawEntry(dateTime, coordinates, magnitude, kedalaman, wilayah, dirasakan) ==
    [DateTime    |-> JsonString(dateTime),
     Coordinates |-> JsonString(coordinates),
     Magnitude   |-> JsonString(magnitude),
     Kedalaman   |-> JsonString(kedalaman),
     Wilayah     |-> JsonString(wilayah),
     Dirasakan   |-> JsonString(dirasakan)]

\* The object schema of one element of Infogempa.gempa.
IsValidEntry(entry) ==
    /\ IsString(entry, "DateTime") /\ IsIsoDatetime(entry.DateTime.v)
    /\ IsString(entry, "Coordinates") /\ IsCoordinatesText(entry.Coordinates.v)
    /\ IsString(entry, "Magnitude")
    /\ IsString(entry, "Kedalaman") /\ IsDepthText(entry.Kedalaman.v)
    /\ IsString(entry, "Wilayah")
    /\ IsString(entry, "Dirasakan")

\* z.object({ Infogempa: z.object({ gempa: z.array(...) }) })
IsFeedDocument(doc) == "Infogempa" \in DOMAIN doc

-----------------------------------------------------------------------------
(* createBmkgApiResSchema(now)                                             *)

\* The text of a number, as it enters the hashed object.
NumberText(x) == ToString(x.m) \o "e-" \o ToString(x.e)

\* hash.sha1 of { earthquakeAt, latitude, longitude, magnitude, depthInKm }:
\* the digest stands for the canonical encoding of the five named members,
\* so different inputs never collide.
sha1(earthquakeAt, latitude, longitude, magnitude, depthInKm) ==
    "sha1{depthInKm:" \o NumberText(depthInKm)
    \o ",earthquakeAt:" \o earthquakeAt
    \o ",latitude:" \o NumberText(latitude)
    \o ",longitude:" \o NumberText(longitude)
    \o ",magnitude:" \o NumberText(magnitude) \o "}"

\* Mutants of TransformEntry: with "hashText" the felt-on text enters the
\* fingerprint, with "utcUrl" the shake map URL is built from the identifier
\* of the unshifted instant.
TransformEntryVariant(entry, now, variant) ==
    LET earthquakeAt       == DateFromIso(entry.DateTime.v)
        coordinates        == coordinatesTransform(entry.Coordinates.v)
        magnitude          == parseFloat(entry.Magnitude.v)
        depthInKm          == depthTransform(entry.Kedalaman.v)
        isFutureEarthquake == After(earthquakeAt, now)
        bmkgEarthquakeId   == computeBmkgEarthquakeId(earthquakeAt)
        shakeMapUrl        ==
            IF variant = "utcUrl"
            THEN getBmkgShakeMapUrl(computeBmkgEarthquakeIdUtc(earthquakeAt))
            ELSE getBmkgShakeMapUrl(bmkgEarthquakeId)
        earthquakeAtIso    ==
            IF variant = "clampFuture" /\ isFutureEarthquake
            THEN toISOString(now)
            ELSE toISOString(earthquakeAt)
        hashed             ==
            IF variant = "hashText"
            THEN earthquakeAtIso \o entry.Dirasakan.v
            ELSE earthquakeAtIso
        fields ==
            [earthquakeAt         |-> earthquakeAtIso,
             latitude             |-> coordinates.latitude,
             longitude            |-> coordinates.longitude,
             magnitude            |-> magnitude,
             depthInKm            |-> depthInKm,
             locationInIndonesian |-> entry.Wilayah.v,
             feltOnStations       |-> entry.Dirasakan.v,
             bmkgEarthquakeId     |-> bmkgEarthquakeId,
             shakeMapUrl          |-> shakeMapUrl,
             fingerprintSha1      |-> sha1(hashed, coordinates.latitude,
                                           coordinates.longitude, magnitude, depthInKm)]
    IN IF isFutureEarthquake
       THEN fields @@ [meta |-> [erroneousDataReason |-> "FUTURE_EARTHQUAKE"]]
       ELSE fields

TransformEntryHashesText(entry, now) == TransformEntryVariant(entry, now, "hashText")

TransformEntryUrlFromUtcId(entry, now) == TransformEntryVariant(entry, now, "utcUrl")

TransformEntryClampsFuture(entry, now) == TransformEntryVariant(entry, now, "clampFuture")

\* The transform of one validated element.
TransformEntry(entry, now) ==
    LET earthquakeAt       == DateFromIso(entry.DateTime.v)
        coordinates        == coordinatesTransform(entry.Coordinates.v)
        magnitude          == parseFloat(entry.Magnitude.v)
        depthInKm          == depthTransform(entry.Kedalaman.v)
        isFutureEarthquake == After(earthquakeAt, now)
        bmkgEarthquakeId   == computeBmkgEarthquakeId(earthquakeAt)
        shakeMapUrl        == getBmkgShakeMapUrl(bmkgEarthquakeId)
        earthquakeAtIso    == toISOString(earthquakeAt)
        fields ==
            [earthquakeAt         |-> earthquakeAtIso,
             latitude             |-> coordinates.latitude,
             longitude            |-> coordinates.longitude,
             magnitude            |-> magnitude,
             depthInKm            |-> depthInKm,
             locationInIndonesian |-> entry.Wilayah.v,
             feltOnStations       |-> entry.Dirasakan.v,
             bmkgEarthquakeId     |-> bmkgEarthquakeId,
             shakeMapUrl          |-> shakeMapUrl,
             fingerprintSha1      |-> sha1(earthquakeAtIso, coordinates.latitude,
                                           coordinates.longitude, magnitude, depthInKm)]
    IN IF isFutureEarthquake
       THEN fields @@ [meta |-> [erroneousDataReason |-> "FUTURE_EARTHQUAKE"]]
       ELSE fields

\* A mutant of SchemaParse: invalid elements are skipped, the valid ones returned.
SchemaParseSkipInvalid(doc, now) ==
    IF ~IsFeedDocument(doc) THEN [success |-> FALSE, data |-> <<>>]
    ELSE LET gempa == doc.Infogempa.gempa
             valid == SelectSeq(gempa, IsValidEntry)
         IN [success |-> TRUE,
             data    |-> [i \in 1..Len(valid) |-> TransformEntry(valid[i], now)]]

\* A mutant of SchemaParse: the events come out last element first.
SchemaParseReversed(doc, now) ==
    IF ~IsFeedDocument(doc) THEN [success |-> FALSE, data |-> <<>>]
    ELSE LET gempa == doc.Infogempa.gempa IN
         IF \E i \in 1..Len(gempa) : ~IsValidEntry(gempa[i])
         THEN [success |-> FALSE, data |-> <<>>]
         ELSE [success |-> TRUE,
               data    |-> [i \in 1..Len(gempa) |->
                               TransformEntry(gempa[Len(gempa) + 1 - i], now)]]

\* createBmkgApiResSchema(now).parse(json): a ZodError (success FALSE, no
\* data) when the document or any element fails its schema, else the
\* transform of every element, in order.
SchemaParse(doc, now) ==
    IF ~IsFeedDocument(doc) THEN [success |-> FALSE, data |-> <<>>]
    ELSE LET gempa == doc.Infogempa.gempa IN
         IF \E i \in 1..Len(gempa) : ~IsValidEntry(gempa[i])
         THEN [success |-> FALSE, data |-> <<>>]
         ELSE [success |-> TRUE,
               data    |-> [i \in 1..Len(gempa) |-> TransformEntry(gempa[i], now)]]

-----------------------------------------------------------------------------
(* Sample feeds and reference times                                        *)

\* Number of elements of Infogempa.gempa in a fetched feed.
MaxFeed == 2

\* Number of successive pipeline runs (executions of the script).
NumRuns == 2

Runs == 1..NumRuns

Gempa1 ==
    RawEntry("2025-12-24T05:30:34+00:00", "-4.46,102.60", "4.6", "30 km",
             "Pusat gempa berada di laut 34 km barat Bengkulu Selatan",
             "II-III Bengkulu Utara, II-III Bengkulu Selatan")

\* The same earthquake fetched later, its felt-on text updated.
Gempa1Updated == [Gempa1 EXCEPT !.Dirasakan = JsonString("III Bengkulu Utara")]

Gempa2 ==
    RawEntry("2025-12-23T04:10:36+00:00", "-8.06,119.24", "4.0", "17 km",
             "Pusat gempa berada di laut", "II Labuan Bajo")

ValidEntries == {Gempa1, Gempa1Updated, Gempa2}

\* Elements that fail the schema: a missing field, a wrongly typed field, a
\* malformed date-time, coordinate and depth text.
InvalidEntries ==
    { [f \in DOMAIN Gempa1 \ {"Wilayah"} |-> Gempa1[f]],
      [Gempa1 EXCEPT !.Dirasakan = JsonNumber("3")],
      [Gempa1 EXCEPT !.DateTime = JsonString("2025-12-24 05:30:34")],
      [Gempa1 EXCEPT !.Coordinates = JsonString("4.46 LS,102.60 BT")],
      [Gempa1 EXCEPT !.Kedalaman = JsonString("30 Km")] }

RawEntries == ValidEntries \cup InvalidEntries

\* What res.json() may return: a feed of at most MaxFeed elements, or a
\* document without Infogempa.
Feeds ==
    {[Infogempa |-> [gempa |-> g]] :
        g \in UNION {[1..n -> RawEntries] : n \in 0..MaxFeed}}
    \cup {EmptyObject}

\* Values of new Date(): between the two sample earthquakes (the later one is
\* then a future event) and after both.
Nows == {DateFromIso("2025-12-24T00:00:00Z"), DateFromIso("2025-12-25T00:00:00Z")}

-----------------------------------------------------------------------------
(* syncFeltEarthquakes: one run per process execution                      *)

MERGE_KEY == "bmkgEarthquakeId"

Ended(r) == pc[r] \in {"done", "failed"}

\* The runs are the successive executions of the script: run r starts once
\* every earlier one has ended.
MayStart(r) == pc[r] = "idle" /\ \A q \in Runs : q < r => Ended(q)

NoParse ==
    [called |-> FALSE, run |-> 0, document |-> FALSE, elements |-> 0,
     invalid |-> {}, success |-> FALSE, events |-> 0]

\* What one call of bmkgApiResSchema.parse(json) was given and returned.
ParseRecord(r, doc, res) ==
    LET gempa == IF IsFeedDocument(doc) THEN doc.Infogempa.gempa ELSE <<>>
    IN [called   |-> TRUE,
        run      |-> r,
        document |-> IsFeedDocument(doc),
        elements |-> Len(gempa),
        invalid  |-> {i \in 1..Len(gempa) : ~IsValidEntry(gempa[i])},
        success  |-> res.success,
        events   |-> Len(res.data)]

\* The locals of a run are gone once its process has exited.
ClearLocals(r) ==
    /\ json' = [json EXCEPT ![r] = EmptyObject]
    /\ freshEarthquakes' = [freshEarthquakes EXCEPT ![r] = <<>>]
    /\ staleEarthquakes' = [staleEarthquakes EXCEPT ![r] = <<>>]
    /\ updated' = [updated EXCEPT ![r] = <<>>]
    /\ steps' = [steps EXCEPT ![r] = <<>>]

\* The scheduler starts the next run when no other one is under way; the run
\* fetches:
\* const res = await fetch(EARTHQUAKE_FELT_URL); const json = await res.json()
Fetch(r) ==
    /\ MayStart(r)
    /\ \E doc \in Feeds : json' = [json EXCEPT ![r] = doc]
    /\ pc' = [pc EXCEPT ![r] = "fetched"]
    /\ steps' = [steps EXCEPT ![r] = <<"fetch">>]
    /\ lastParse' = NoParse
    /\ UNCHANGED <<snapshot, everPersisted, freshEarthquakes, staleEarthquakes, updated, mergeVars, fnVars>>

\* fetch rejects or res.json() throws: caught, Deno.exit(1)
FetchFail(r) ==
    /\ MayStart(r)
    /\ pc' = [pc EXCEPT ![r] = "failed"]
    /\ lastParse' = NoParse
    /\ UNCHANGED <<snapshot, everPersisted, json, freshEarthquakes, staleEarthquakes, updated,
                   steps, mergeVars, fnVars>>

\* A mutant of Parse: on a validation error the valid elements are written out.
ParseWritesValidOnError(r) ==
    /\ pc[r] = "fetched"
    /\ \E now \in Nows :
          LET res  == SchemaParse(json[r], now)
              part == SchemaParseSkipInvalid(json[r], now)
          IN /\ lastParse' = ParseRecord(r, json[r], res)
             /\ IF res.success
                THEN /\ freshEarthquakes' = [freshEarthquakes EXCEPT ![r] = res.data]
                     /\ pc' = [pc EXCEPT ![r] = "parsed"]
                     /\ steps' = [steps EXCEPT ![r] = Append(@, "validate")]
                     /\ UNCHANGED <<snapshot, everPersisted, json, staleEarthquakes, updated>>
                ELSE /\ pc' = [pc EXCEPT ![r] = "failed"]
                     /\ snapshot' = part.data
                     /\ UNCHANGED everPersisted
                     /\ ClearLocals(r)
    /\ UNCHANGED <<mergeVars, fnVars>>

\* const bmkgApiResSchema = createBmkgApiResSchema();   (now = new Date())
\* const freshEarthquakes = bmkgApiResSchema.parse(json);
\* a ZodError is caught at the top level: console.error, Deno.exit(1)
Parse(r) ==
    /\ pc[r] = "fetched"
    /\ \E now \in Nows :
          LET res == SchemaParse(json[r], now)
          IN /\ lastParse' = ParseRecord(r, json[r], res)
             /\ IF res.success
                THEN /\ freshEarthquakes' = [freshEarthquakes EXCEPT ![r] = res.data]
                     /\ pc' = [pc EXCEPT ![r] = "parsed"]
                     /\ steps' = [steps EXCEPT ![r] = Append(@, "validate")]
                     /\ UNCHANGED <<json, staleEarthquakes, updated>>
                ELSE /\ pc' = [pc EXCEPT ![r] = "failed"]
                     /\ ClearLocals(r)
    /\ UNCHANGED <<snapshot, everPersisted, mergeVars, fnVars>>

\* const staleEarthquakes = await readJsonFile(EARTHQUAKE_FELT_JSON_PATH);
Read(r) ==
    /\ pc[r] = "parsed"
    /\ staleEarthquakes' = [staleEarthquakes EXCEPT ![r] = snapshot]
    /\ pc' = [pc EXCEPT ![r] = "read"]
    /\ steps' = [steps EXCEPT ![r] = Append(@, "read")]
    /\ UNCHANGED <<snapshot, everPersisted, json, freshEarthquakes, updated, lastParse, mergeVars, fnVars>>

\* readJsonFile throws
ReadFail(r) ==
    /\ pc[r] = "parsed"
    /\ pc' = [pc EXCEPT ![r] = "failed"]
    /\ ClearLocals(r)
    /\ UNCHANGED <<snapshot, everPersisted, lastParse, mergeVars, fnVars>>

\* A mutant of MergeStep: the merge is made into the file as it stands at the
\* time of the merge, not into what the run read.
MergeStepRereads(r) ==
    /\ pc[r] = "read"
    /\ updated' = [updated EXCEPT ![r] =
          mergeFeltEarthquakes(snapshot, freshEarthquakes[r], MERGE_KEY)]
    /\ pc' = [pc EXCEPT ![r] = "merged"]
    /\ steps' = [steps EXCEPT ![r] = Append(@, "merge")]
    /\ UNCHANGED <<snapshot, everPersisted, json, freshEarthquakes, staleEarthquakes,
                   lastParse, mergeVars, fnVars>>

\* const updated = mergeFeltEarthquakes(staleEarthquakes, freshEarthquakes,
\*                                      { mergeKey: "bmkgEarthquakeId" });
MergeStep(r) ==
    /\ pc[r] = "read"
    /\ updated' = [updated EXCEPT ![r] =
          mergeFeltEarthquakes(staleEarthquakes[r], freshEarthquakes[r], MERGE_KEY)]
    /\ pc' = [pc EXCEPT ![r] = "merged"]
    /\ steps' = [steps EXCEPT ![r] = Append(@, "merge")]
    /\ UNCHANGED <<snapshot, everPersisted, json, freshEarthquakes, staleEarthquakes, lastParse,
                   mergeVars, fnVars>>

\* await writeJsonFile(EARTHQUAKE_FELT_JSON_PATH, updated);   then the run ends
Write(r) ==
    /\ pc[r] = "merged"
    /\ snapshot' = updated[r]
    /\ everPersisted' =
          everPersisted \cup {Get(updated[r][i], MERGE_KEY) : i \in 1..Len(updated[r])}
    /\ pc' = [pc EXCEPT ![r] = "done"]
    /\ ClearLocals(r)
    /\ UNCHANGED <<lastParse, mergeVars, fnVars>>

\* writeJsonFile throws
WriteFail(r) ==
    /\ pc[r] = "merged"
    /\ pc' = [pc EXCEPT ![r] = "failed"]
    /\ ClearLocals(r)
    /\ UNCHANGED <<snapshot, everPersisted, lastParse, mergeVars, fnVars>>

\* No call of computeBmkgEarthquakeId on its own is under way.
IdIdle ==
    /\ earthquakeAt1 = NoDate /\ earthquakeAt2 = NoDate
    /\ id1 = "" /\ id2 = ""

\* A parse that has not been made.
NoResult == [success |-> FALSE, data |-> <<>>]

\* No call of the schema on its own is under way.
NormIdle ==
    /\ rawFeed = EmptyObject
    /\ now1 = NoDate /\ now2 = NoDate
    /\ parsed1 = NoResult /\ parsed2 = NoResult

\* No call of coordinatesSchema or depthSchema on its own is under way.
TextIdle == schemaKind = "off" /\ schemaArg = "" /\ schemaResult = NoResult

FnIdle == IdIdle /\ NormIdle /\ TextIdle /\ fnPhase = "off"

PipelineIdle ==
    /\ snapshot = <<>>
    /\ everPersisted = {}
    /\ pc = [r \in Runs |-> "idle"]
    /\ json = [r \in Runs |-> EmptyObject]
    /\ freshEarthquakes = [r \in Runs |-> <<>>]
    /\ staleEarthquakes = [r \in Runs |-> <<>>]
    /\ updated = [r \in Runs |-> <<>>]
    /\ steps = [r \in Runs |-> <<>>]
    /\ lastParse = NoParse

Init ==
    /\ PipelineIdle
    /\ staleIn = <<>> /\ freshIn = <<>> /\ keyIn = MERGE_KEY
    /\ result = <<>> /\ result2 = <<>> /\ phase = "off"
    /\ FnIdle

Next ==
    \E r \in Runs :
        \/ Fetch(r) \/ FetchFail(r)
        \/ Parse(r)
        \/ Read(r) \/ ReadFail(r)
        \/ MergeStep(r)
        \/ Write(r) \/ WriteFail(r)

Spec == Init /\ [][Next]_vars

-----------------------------------------------------------------------------
(* Runs of syncFeltEarthquakes that are not serialized: the workflow is     *)
(* started by push, by hand and by the schedule, and nothing in the program *)
(* keeps a second process from starting while one is under way               *)

\* What the feed returns over a short time: one earthquake, then the next
\* one alone, or a document without Infogempa.
FeedsOverTime ==
    {[Infogempa |-> [gempa |-> <<Gempa1>>]],
     [Infogempa |-> [gempa |-> <<Gempa2>>]],
     EmptyObject}

\* A run starts whatever the other runs are doing, and fetches.
FetchUncoordinated(r) ==
    /\ pc[r] = "idle"
    /\ \E doc \in FeedsOverTime : json' = [json EXCEPT ![r] = doc]
    /\ pc' = [pc EXCEPT ![r] = "fetched"]
    /\ steps' = [steps EXCEPT ![r] = <<"fetch">>]
    /\ lastParse' = NoParse
    /\ UNCHANGED <<snapshot, everPersisted, freshEarthquakes, staleEarthquakes, updated,
                   mergeVars, fnVars>>

\* fetch rejects or res.json() throws in a run started at any time
FetchFailUncoordinated(r) ==
    /\ pc[r] = "idle"
    /\ pc' = [pc EXCEPT ![r] = "failed"]
    /\ lastParse' = NoParse
    /\ UNCHANGED <<snapshot, everPersisted, json, freshEarthquakes, staleEarthquakes,
                   updated, steps, mergeVars, fnVars>>

NextUncoordinated ==
    \E r \in Runs :
        \/ FetchUncoordinated(r) \/ FetchFailUncoordinated(r)
        \/ Parse(r)
        \/ Read(r) \/ ReadFail(r)
        \/ MergeStep(r)
        \/ Write(r) \/ WriteFail(r)

SpecUncoordinated == Init /\ [][NextUncoordinated]_vars

-----------------------------------------------------------------------------
(* Merge harness: every stale and fresh collection within the bound, either *)
(* merge key                                                                *)

InitMerge ==
    /\ \E n \in 0..MaxRecords : \E m \in 0..(MaxRecords - n) :
          /\ staleIn \in ArraysOfLen(Earthquake, n)
          /\ freshIn \in ArraysOfLen(Earthquake, m)
    /\ keyIn \in MergeKeys
    /\ result = <<>>
    /\ result2 = <<>>
    /\ phase = "input"
    /\ PipelineIdle
    /\ FnIdle

\* A mutant of Merge: the merge is made in place, in the stale array.
MergeInPlace ==
    /\ phase = "input"
    /\ result' = mergeFeltEarthquakes(staleIn, freshIn, keyIn)
    /\ staleIn' = result'
    /\ phase' = "merged"
    /\ UNCHANGED <<freshIn, keyIn, result2, pipelineVars, fnVars>>

\* updated = mergeFeltEarthquakes(staleEarthquakes, freshEarthquakes, {mergeKey})
Merge ==
    /\ phase = "input"
    /\ result' = mergeFeltEarthquakes(staleIn, freshIn, keyIn)
    /\ phase' = "merged"
    /\ UNCHANGED <<staleIn, freshIn, keyIn, result2, pipelineVars, fnVars>>

\* the next cycle reads the written output and gets the same fresh collection
MergeAgain ==
    /\ phase = "merged"
    /\ result2' = mergeFeltEarthquakes(result, freshIn, keyIn)
    /\ phase' = "remerged"
    /\ UNCHANGED <<staleIn, freshIn, keyIn, result, pipelineVars, fnVars>>

NextMerge == Merge \/ MergeAgain

SpecMerge == InitMerge /\ [][NextMerge]_vars

-----------------------------------------------------------------------------
(* mergeFeltEarthquakes called with a merge key that is not a MergeKey     *)

\* Keys a caller that is not type-checked may pass: no record has them.
UnsupportedKeys == {"id", "fingerprint"}

InitBadKey ==
    /\ \E n \in 0..MaxRecords : \E m \in 0..(MaxRecords - n) :
          /\ staleIn \in ArraysOfLen(Earthquake, n)
          /\ freshIn \in ArraysOfLen(Earthquake, m)
    /\ keyIn \in UnsupportedKeys
    /\ result = <<>>
    /\ result2 = <<>>
    /\ phase = "input"
    /\ PipelineIdle
    /\ FnIdle

SpecBadKey == InitBadKey /\ [][NextMerge]_vars

-----------------------------------------------------------------------------
(* One stale and one fresh record with the same id, holding nested objects *)
(* and arrays                                                              *)

\* Length of an array held by a record.
MaxStations == 2

StationTexts == {"II Labuan Bajo", "III Bengkulu Utara"}

StationArrays == UNION {[1..n -> StationTexts] : n \in 0..MaxStations}

\* const rawData = { ..., depth: rDepth, feltOn: rFeltOn }, cut to two members
RawDataValues ==
    {[feltOn |-> "II Labuan Bajo"],
     [depth |-> "17 km"],
     [depth |-> "17 km", feltOn |-> "III Bengkulu Utara"]}

\* The record holding field k with value v when has is true, no field otherwise.
Optional(has, k, v) == IF has THEN k :> v ELSE <<>>

\* Records of one earthquake with any of meta, rawData and stations.
NestedRecords ==
    {[bmkgEarthquakeId |-> "20251224123034"]
        @@ Optional(hasMeta, "meta", meta)
        @@ Optional(hasRawData, "rawData", rawData)
        @@ Optional(hasStations, "stations", stations) :
        hasMeta \in BOOLEAN, meta \in MetaValues,
        hasRawData \in BOOLEAN, rawData \in RawDataValues,
        hasStations \in BOOLEAN, stations \in StationArrays}

InitNested ==
    /\ \E a \in NestedRecords : staleIn = <<a>>
    /\ \E b \in NestedRecords : freshIn = <<b>>
    /\ keyIn = MERGE_KEY
    /\ result = <<>>
    /\ result2 = <<>>
    /\ phase = "input"
    /\ PipelineIdle
    /\ FnIdle

SpecNested == InitNested /\ [][NextMerge]_vars

-----------------------------------------------------------------------------
(* Calls of computeBmkgEarthquakeId on two instants                        *)

\* DateTime texts the feed schema accepts; the instants they denote include
\* the ones of the tests, instants one second and half a second apart, and
\* instants whose shift to WIB crosses a day, a month, a leap day and a year,
\* into the years 1000 and 10000 and within the year before the year 0.
InstantTexts ==
    {"2022-12-18T22:50:14.000Z", "2022-01-09T02:03:05.000Z",
     "2025-12-24T05:30:34+00:00", "2025-12-24T05:30:34.500Z",
     "2025-12-24T05:30:35+00:00", "2025-12-31T16:59:59Z",
     "2025-12-31T17:00:00Z", "2024-02-29T20:00:00Z", "2023-02-28T17:00:00Z",
     "0999-12-31T16:59:59Z", "0999-12-31T17:00:00Z",
     "9999-12-31T16:59:59Z", "9999-12-31T17:00:00Z",
     "0000-01-01T00:00:00Z", "0000-01-01T00:00:00+13:00",
     "0000-01-01T00:00:00+14:00"}

Instants == {DateFromIso(text) : text \in InstantTexts}

InitId ==
    /\ earthquakeAt1 \in Instants
    /\ earthquakeAt2 \in Instants
    /\ id1 = "" /\ id2 = ""
    /\ fnPhase = "input"
    /\ NormIdle
    /\ TextIdle
    /\ PipelineIdle
    /\ staleIn = <<>> /\ freshIn = <<>> /\ keyIn = MERGE_KEY
    /\ result = <<>> /\ result2 = <<>> /\ phase = "off"

\* const bmkgEarthquakeId = computeBmkgEarthquakeId(fresh.earthquakeAt), twice
ComputeIds ==
    /\ fnPhase = "input"
    /\ id1' = computeBmkgEarthquakeId(earthquakeAt1)
    /\ id2' = computeBmkgEarthquakeId(earthquakeAt2)
    /\ fnPhase' = "done"
    /\ UNCHANGED <<earthquakeAt1, earthquakeAt2, normVars, textVars, mergeVars, pipelineVars>>

NextId == ComputeIds

SpecId == InitId /\ [][NextId]_vars

-----------------------------------------------------------------------------
(* One raw feed parsed by two schemas, each made with its own now          *)

\* Values of the now parameter: before both sample earthquakes, between
\* them, the instant of the later one, and after both.
ReferenceTimes ==
    Nows \cup {DateFromIso("2025-12-01T00:00:00Z"), DateFromIso("2025-12-24T05:30:34Z")}

InitNorm ==
    /\ rawFeed \in Feeds
    /\ now1 \in ReferenceTimes
    /\ now2 \in ReferenceTimes
    /\ parsed1 = NoResult /\ parsed2 = NoResult
    /\ fnPhase = "input"
    /\ IdIdle
    /\ TextIdle
    /\ PipelineIdle
    /\ staleIn = <<>> /\ freshIn = <<>> /\ keyIn = MERGE_KEY
    /\ result = <<>> /\ result2 = <<>> /\ phase = "off"

\* createBmkgApiResSchema(now1).parse(json); createBmkgApiResSchema(now2).parse(json)
ParseTwice ==
    /\ fnPhase = "input"
    /\ parsed1' = SchemaParse(rawFeed, now1)
    /\ parsed2' = SchemaParse(rawFeed, now2)
    /\ fnPhase' = "done"
    /\ UNCHANGED <<rawFeed, now1, now2, idVars, textVars, mergeVars, pipelineVars>>

NextNorm == ParseTwice

SpecNorm == InitNorm /\ [][NextNorm]_vars

-----------------------------------------------------------------------------
(* Calls of coordinatesSchema and depthSchema on strings                   *)

\* Decimal numbers as the feed writes them, with their values.
Decimals ==
    {[text |-> "1.47",   value |-> [m |-> 147, e |-> 2]],
     [text |-> "-4.46",  value |-> [m |-> 0 - 446, e |-> 2]],
     [text |-> "102.60", value |-> [m |-> 1026, e |-> 1]],
     [text |-> "-8.06",  value |-> [m |-> 0 - 806, e |-> 2]],
     [text |-> "30",     value |-> [m |-> 30, e |-> 0]],
     [text |-> "2",      value |-> [m |-> 2, e |-> 0]],
     [text |-> "102",    value |-> [m |-> 102, e |-> 0]]}

DecimalTexts == {d.text : d \in Decimals}

\* Texts that are not a decimal number.
NotDecimalTexts ==
    {"", "abc", "+1.47", ".5", "1.", "1.4.7", "--2", "1e3", " 30", "30 ", "4.46 LS"}

NumberTexts == DecimalTexts \cup NotDecimalTexts

Separators == {",", " ", ";", ", "}

\* A first part, a separator and a second part, alone or followed by a
\* third part; and texts without a separator.
CoordinateTexts ==
    {a \o sep \o b \o extra :
        a \in NumberTexts, sep \in Separators, b \in NumberTexts, extra \in {"", ",2"}}
    \cup {"", "-4.46", "-4.46102.60"}

Units == {" km", " Km", " KM", "km", " km ", " m", "", " km."}

DepthTexts == {a \o unit : a \in NumberTexts, unit \in Units}

InitText ==
    /\ \/ schemaKind = "coordinates" /\ schemaArg \in CoordinateTexts
       \/ schemaKind = "depth" /\ schemaArg \in DepthTexts
    /\ schemaResult = NoResult
    /\ fnPhase = "input"
    /\ IdIdle
    /\ NormIdle
    /\ PipelineIdle
    /\ staleIn = <<>> /\ freshIn = <<>> /\ keyIn = MERGE_KEY
    /\ result = <<>> /\ result2 = <<>> /\ phase = "off"

\* coordinatesSchema.parse(schemaArg)
ParseCoordinates ==
    /\ fnPhase = "input"
    /\ schemaKind = "coordinates"
    /\ schemaResult' = coordinatesSchema(schemaArg)
    /\ fnPhase' = "done"
    /\ UNCHANGED <<schemaKind, schemaArg, idVars, normVars, mergeVars, pipelineVars>>

\* depthSchema.parse(schemaArg)
ParseDepth ==
    /\ fnPhase = "input"
    /\ schemaKind = "depth"
    /\ schemaResult' = depthSchema(schemaArg)
    /\ fnPhase' = "done"
    /\ UNCHANGED <<schemaKind, schemaArg, idVars, normVars, mergeVars, pipelineVars>>

NextText == ParseCoordinates \/ ParseDepth

SpecText == InitText /\ [][NextText]_vars

-----------------------------------------------------------------------------
(* The merge of normalized records: a fresh collection parsed from a feed  *)
(* is merged into a stale collection of records normalized earlier         *)

\* Length of the feed and of the stale collection.
MaxSameSecond == 2

\* Another earthquake in the second of Gempa1.
GempaSameSecond ==
    RawEntry("2025-12-24T05:30:34.500+00:00", "-4.50,102.70", "3.1", "10 km",
             "Pusat gempa berada di darat 12 km timur Bengkulu Selatan",
             "II Bengkulu Selatan")

SameSecondEntries == {Gempa1, GempaSameSecond, Gempa2}

SameSecondFeeds ==
    {[Infogempa |-> [gempa |-> g]] :
        g \in UNION {[1..n -> SameSecondEntries] : n \in 0..MaxSameSecond}}

\* Values of new Date(): between the two earthquakes of one second, and after
\* all of them.
SameSecondNows ==
    {DateFromIso("2025-12-24T05:30:34.250Z"), DateFromIso("2025-12-25T00:00:00Z")}

\* Gempa2 as fetched later, its felt-on text updated.
Gempa2Updated == [Gempa2 EXCEPT !.Dirasakan = JsonString("II-III Labuan Bajo")]

\* Records as earlier runs normalized them.
NormalizedEarlier ==
    {TransformEntry(entry, now) :
        entry \in SameSecondEntries \cup {Gempa2Updated}, now \in SameSecondNows}

InitFold ==
    /\ rawFeed \in SameSecondFeeds
    /\ now1 \in SameSecondNows
    /\ now2 = NoDate
    /\ parsed1 = NoResult /\ parsed2 = NoResult
    /\ fnPhase = "input"
    /\ staleIn \in UNION {[1..n -> NormalizedEarlier] : n \in 0..MaxSameSecond}
    /\ freshIn = <<>>
    /\ keyIn \in MergeKeys
    /\ result = <<>> /\ result2 = <<>>
    /\ phase = "feed"
    /\ IdIdle
    /\ TextIdle
    /\ PipelineIdle

\* const freshEarthquakes = bmkgApiResSchema.parse(json)
NormalizeFresh ==
    /\ phase = "feed"
    /\ parsed1' = SchemaParse(rawFeed, now1)
    /\ freshIn' = parsed1'.data
    /\ phase' = "input"
    /\ fnPhase' = "done"
    /\ UNCHANGED <<staleIn, keyIn, result, result2, rawFeed, now1, now2, parsed2,
                   idVars, textVars, pipelineVars>>

NextFold == NormalizeFresh \/ Merge \/ MergeAgain

SpecFold == InitFold /\ [][NextFold]_vars

-----------------------------------------------------------------------------
(* Vocabulary of the merge properties                                      *)

\* The merge-key values of a collection, in order, and as a set.
KeysOf(arr, key) == [i \in 1..Len(arr) |-> arr[i][key]]
KeySet(arr, key) == {arr[i][key] : i \in 1..Len(arr)}

\* No two records of the collection share the merge-key value.
DistinctKeys(arr, key) ==
    \A i, j \in 1..Len(arr) : arr[i][key] = arr[j][key] => i = j

\* A sequence of keys with every repetition after the first occurrence removed.
RECURSIVE FirstOccurrences(_)
FirstOccurrences(ks) ==
    IF ks = <<>> THEN <<>>
    ELSE LET front == FirstOccurrences(SubSeq(ks, 1, Len(ks) - 1))
             last  == ks[Len(ks)]
         IN IF \E i \in 1..Len(front) : front[i] = last THEN front
            ELSE Append(front, last)

\* The fresh records whose key does not occur in the stale collection, in order.
NewFresh(stale, fresh, key) ==
    LET IsNew(r) == r[key] \notin KeySet(stale, key) IN SelectSeq(fresh, IsNew)

\* The record of the output that carries the given key value.
OutputFor(out, key, k) == out[CHOOSE i \in 1..Len(out) : out[i][key] = k]

Merged == phase \in {"merged", "remerged"}

-----------------------------------------------------------------------------
(* C1: whatever the stale and fresh collections are (repeated keys         *)
(* included) and whichever merge key is used, no two records returned by   *)
(* mergeFeltEarthquakes carry the same merge-key value; the same holds for *)
(* the output of the next cycle that merges into that output.              *)
C1_NoDuplicateKeys ==
    /\ Merged => DistinctKeys(result, keyIn)
    /\ phase = "remerged" => DistinctKeys(result2, keyIn)

C1_Witness ==
    /\ phase = "merged"
    /\ ~DistinctKeys(staleIn, keyIn)
    /\ \E i \in 1..Len(freshIn) : freshIn[i][keyIn] \in KeySet(staleIn, keyIn)
    /\ Len(result) >= 1

(* C2: every merge-key value of the stale collection occurs in the output, *)
(* whether or not a fresh record has it, and the next cycle keeps every    *)
(* key of the collection it read.                                          *)
C2_NoKeyDeleted ==
    /\ Merged => KeySet(staleIn, keyIn) \subseteq KeySet(result, keyIn)
    /\ phase = "remerged" =>
          /\ KeySet(result, keyIn) \subseteq KeySet(result2, keyIn)
          /\ KeySet(staleIn, keyIn) \subseteq KeySet(result2, keyIn)

C2_Witness ==
    /\ phase = "remerged"
    /\ freshIn # <<>>
    /\ \E i \in 1..Len(staleIn) : staleIn[i][keyIn] \notin KeySet(freshIn, keyIn)

(* C3 as stated: for a fresh record whose key matches a stale record, the  *)
(* output record of that key has the fresh value of every field of the     *)
(* fresh record and keeps every field only the stale record has.           *)
C3_Original ==
    phase = "merged" =>
        \A i \in 1..Len(freshIn) : \A j \in 1..Len(staleIn) :
            freshIn[i][keyIn] = staleIn[j][keyIn] =>
                LET fr == freshIn[i]
                    st == staleIn[j]
                    o  == OutputFor(result, keyIn, fr[keyIn])
                IN /\ \A f \in DOMAIN fr : f \in DOMAIN o /\ o[f] = fr[f]
                   /\ \A f \in DOMAIN st \ DOMAIN fr : f \in DOMAIN o /\ o[f] = st[f]

\* The key value is carried by exactly one stale and exactly one fresh record.
MatchedOnce(i, j) ==
    /\ freshIn[i][keyIn] = staleIn[j][keyIn]
    /\ \A i2 \in 1..Len(freshIn) : freshIn[i2][keyIn] = freshIn[i][keyIn] => i2 = i
    /\ \A j2 \in 1..Len(staleIn) : staleIn[j2][keyIn] = staleIn[j][keyIn] => j2 = j

(* C3 amended: when one stale and one fresh record carry the key, the      *)
(* output record has exactly the fields of both; a field of the fresh      *)
(* record has the fresh value, except that a field holding a plain object  *)
(* on both records is merged member by member (fresh members win, members  *)
(* only the stale object has are kept); a field only the stale record has  *)
(* keeps its value.                                                        *)
C3_FieldUnionFavoringFresh ==
    phase = "merged" =>
        \A i \in 1..Len(freshIn) : \A j \in 1..Len(staleIn) :
            MatchedOnce(i, j) =>
                LET fr == freshIn[i]
                    st == staleIn[j]
                    o  == OutputFor(result, keyIn, fr[keyIn])
                IN /\ DOMAIN o = DOMAIN st \cup DOMAIN fr
                   /\ \A f \in DOMAIN fr :
                        IF f \in ObjectFields /\ f \in DOMAIN st
                        THEN /\ DOMAIN o[f] = DOMAIN st[f] \cup DOMAIN fr[f]
                             /\ \A g \in DOMAIN fr[f] : o[f][g] = fr[f][g]
                             /\ \A g \in DOMAIN st[f] \ DOMAIN fr[f] : o[f][g] = st[f][g]
                        ELSE o[f] = fr[f]
                   /\ \A f \in DOMAIN st \ DOMAIN fr : o[f] = st[f]

C3_Witness ==
    /\ phase = "merged"
    /\ \E i \in 1..Len(freshIn) : \E j \in 1..Len(staleIn) :
          /\ MatchedOnce(i, j)
          /\ "meta" \in DOMAIN staleIn[j] /\ "meta" \in DOMAIN freshIn[i]
          /\ staleIn[j].meta # EmptyObject /\ freshIn[i].meta = EmptyObject
          /\ \E f \in {"bmkgEarthquakeId", "fingerprintSha1"} :
                staleIn[j][f] # freshIn[i][f]
          /\ OutputFor(result, keyIn, freshIn[i][keyIn]).meta = staleIn[j].meta

(* C4: merging the same fresh collection into the output of the merge      *)
(* returns that output again: the same records with the same fields in the *)
(* same order.                                                             *)
C4_Idempotent == phase = "remerged" => result2 = result

C4_Witness ==
    /\ phase = "remerged"
    /\ result2 = result
    /\ result # staleIn
    /\ \E i \in 1..Len(freshIn) : freshIn[i][keyIn] \in KeySet(staleIn, keyIn)
    /\ \E i \in 1..Len(freshIn) : freshIn[i][keyIn] \notin KeySet(staleIn, keyIn)

(* C5 as stated: the output is the stale records in their order, each      *)
(* matched one updated in place, followed by the fresh records whose key   *)
(* is not in the stale collection, in fresh order.                         *)
C5_Original ==
    phase = "merged" =>
        LET new == NewFresh(staleIn, freshIn, keyIn) IN
        /\ Len(result) = Len(staleIn) + Len(new)
        /\ \A i \in 1..Len(staleIn) : result[i][keyIn] = staleIn[i][keyIn]
        /\ \A i \in 1..Len(new) : result[Len(staleIn) + i][keyIn] = new[i][keyIn]

(* C5 amended: the output has one record per key value: first the key      *)
(* values of the stale collection in the order of their first occurrence,  *)
(* then the key values only the fresh collection has, in the order of      *)
(* their first occurrence there.                                           *)
C5_OutputOrder ==
    phase = "merged" =>
        KeysOf(result, keyIn) =
            FirstOccurrences(KeysOf(staleIn, keyIn))
            \o FirstOccurrences(KeysOf(NewFresh(staleIn, freshIn, keyIn), keyIn))

C5_Witness ==
    /\ phase = "merged"
    /\ Len(staleIn) = 2 /\ DistinctKeys(staleIn, keyIn)
    /\ Len(freshIn) = 1
    /\ freshIn[1][keyIn] = staleIn[1][keyIn]
    /\ result[1] # staleIn[1]
    /\ result[1][keyIn] = staleIn[1][keyIn]
    /\ result[2] = staleIn[2]

(* C6 as stated: merging any stale collection with an empty fresh          *)
(* collection returns the stale collection unchanged.                      *)
C6_Original ==
    (phase = "merged" /\ freshIn = <<>>) => result = staleIn

(* C6 amended: merging a stale collection in which no two records share    *)
(* the merge-key value with an empty fresh collection returns the stale    *)
(* collection unchanged.                                                   *)
C6_EmptyFresh ==
    (phase = "merged" /\ freshIn = <<>> /\ DistinctKeys(staleIn, keyIn))
        => result = staleIn

C6_Witness ==
    /\ phase = "merged"
    /\ freshIn = <<>>
    /\ Len(staleIn) >= 2
    /\ DistinctKeys(staleIn, keyIn)
    /\ result = staleIn

(* C7 as stated: merging an empty stale collection with N fresh records    *)
(* returns exactly those N records.                                        *)
C7_Original ==
    (phase = "merged" /\ staleIn = <<>>) => result = freshIn

(* C7 amended: merging an empty stale collection with N fresh records of   *)
(* pairwise different merge-key values returns exactly those N records.    *)
C7_EmptyStale ==
    (phase = "merged" /\ staleIn = <<>> /\ DistinctKeys(freshIn, keyIn))
        => result = freshIn

C7_Witness ==
    /\ phase = "merged"
    /\ staleIn = <<>>
    /\ Len(freshIn) >= 2
    /\ DistinctKeys(freshIn, keyIn)
    /\ result = freshIn

(* C8 as stated: the output has as many records as the stale collection    *)
(* plus the fresh records whose key is absent from the stale collection.   *)
C8_Original ==
    phase = "merged" =>
        Len(result) = Len(staleIn) + Len(NewFresh(staleIn, freshIn, keyIn))

(* C8 amended: the output has as many records as there are different key   *)
(* values in the stale collection plus different key values found only in  *)
(* the fresh collection; with no key repeated inside either collection     *)
(* that is the stale length plus the number of fresh records whose key is  *)
(* absent from the stale collection.                                       *)
C8_Count ==
    phase = "merged" =>
        /\ Len(result) = Cardinality(KeySet(staleIn, keyIn))
                         + Cardinality(KeySet(freshIn, keyIn) \ KeySet(staleIn, keyIn))
        /\ (DistinctKeys(staleIn, keyIn) /\ DistinctKeys(freshIn, keyIn)) =>
              Len(result) = Len(staleIn) + Len(NewFresh(staleIn, freshIn, keyIn))

C8_Witness ==
    /\ phase = "merged"
    /\ Len(staleIn) = 1
    /\ Len(freshIn) = 2
    /\ \E i \in 1..2 : freshIn[i][keyIn] = staleIn[1][keyIn]
    /\ \E i \in 1..2 : freshIn[i][keyIn] # staleIn[1][keyIn]
    /\ Len(result) = Len(staleIn) + 1


-----------------------------------------------------------------------------
(* Properties of the pipeline                                              *)

AllSteps == <<"fetch", "validate", "read", "merge">>

\* C9: a run writes the persisted snapshot at most once and only after fetch,
\* feed validation, snapshot read and merge have all succeeded: the snapshot
\* changes only in the step that ends such a run (so no second write by it
\* follows), to that run's merge result;
\* a run in which fetch, validation or read fails (the merge cannot fail) ends
\* without a write and leaves the snapshot untouched.
C9_WriteOnceAfterAllSteps ==
    [][ /\ snapshot' # snapshot =>
              \E r \in Runs : /\ pc[r] = "merged"
                              /\ steps[r] = AllSteps
                              /\ snapshot' = updated[r]
                              /\ pc'[r] = "done"
        /\ \A r \in Runs :
              (pc'[r] = "failed" /\ pc[r] \notin {"failed", "merged"}) =>
                  snapshot' = snapshot
      ]_vars

\* A run has failed on validation while a snapshot written by an earlier run
\* is persisted.
C9_Witness ==
    /\ lastParse.called
    /\ ~lastParse.success
    /\ pc[lastParse.run] = "failed"
    /\ snapshot # <<>>
    /\ \E q \in Runs : pc[q] = "done"

\* C10: feed normalization is all-or-nothing: when any element of the raw
\* feed fails validation, the parse fails and yields no events at all, and the
\* run that called it ends without fresh events; the valid elements are never
\* returned with the invalid one dropped.
C10_AllOrNothing ==
    (lastParse.called /\ lastParse.invalid # {}) =>
        /\ ~lastParse.success
        /\ lastParse.events = 0
        /\ pc[lastParse.run] = "failed"
        /\ freshEarthquakes[lastParse.run] = <<>>

\* A feed holding a valid and an invalid element has been parsed.
C10_Witness ==
    /\ lastParse.called
    /\ lastParse.invalid # {}
    /\ Cardinality(lastParse.invalid) < lastParse.elements
    /\ ~lastParse.success
    /\ pc[lastParse.run] = "failed"


-----------------------------------------------------------------------------
(* Properties of computeBmkgEarthquakeId                                   *)

\* A decimal numeral without its leading zeros.
RECURSIVE StripZeros(_)
StripZeros(s) ==
    IF Len(s) > 1 /\ Char(s, 1) = "0" THEN StripZeros(SubSeq(s, 2, Len(s))) ELSE s

\* a < b for two texts of digits read as numbers.
DigitsLess(a, b) ==
    LET x == StripZeros(a)
        y == StripZeros(b)
    IN \/ Len(x) < Len(y)
       \/ /\ Len(x) = Len(y)
          /\ \E i \in 1..Len(x) :
                /\ SubSeq(x, 1, i - 1) = SubSeq(y, 1, i - 1)
                /\ DigitValue(Char(x, i)) < DigitValue(Char(y, i))

IsNegative(s) == Len(s) > 1 /\ Char(s, 1) = "-"

Magnitude(s) == IF IsNegative(s) THEN SubSeq(s, 2, Len(s)) ELSE s

\* a < b for two identifiers read as numbers.
NumberLess(a, b) ==
    IF IsNegative(a)
    THEN (IF IsNegative(b) THEN DigitsLess(Magnitude(b), Magnitude(a))
          ELSE StripZeros(Magnitude(a)) # "0" \/ StripZeros(b) # "0")
    ELSE ~IsNegative(b) /\ DigitsLess(a, b)

\* b is at least one second after a.
OneSecondApart(a, b) ==
    \/ b.day > a.day + 1
    \/ b.day = a.day + 1 /\ b.ms + MsPerDay - a.ms >= 1000
    \/ b.day = a.day /\ b.ms - a.ms >= 1000

\* The civil date and time seven hours after the UTC fields of an instant,
\* counted on the calendar: past midnight the date moves to the next day, past
\* the end of a month to the next month, past December to the next year.
SevenHoursLater(t) ==
    LET c    == CivilFromDays(t.day)
        hour == getUTCHours(t) + 7
        next == IF c.date < DaysInMonth(c.year, c.month)
                THEN [year |-> c.year, month |-> c.month, date |-> c.date + 1]
                ELSE IF c.month < 12
                     THEN [year |-> c.year, month |-> c.month + 1, date |-> 1]
                     ELSE [year |-> c.year + 1, month |-> 1, date |-> 1]
        d    == IF hour >= 24 THEN next ELSE c
    IN [year |-> d.year, month |-> d.month, date |-> d.date,
        hour |-> hour % 24, minute |-> getUTCMinutes(t), second |-> getUTCSeconds(t)]

\* YYYYMMDDHHMMSS of a civil date and time.
YYYYMMDDHHMMSS(c) ==
    padStart(ToString(c.year), 4) \o padStart(ToString(c.month), 2)
    \o padStart(ToString(c.date), 2) \o padStart(ToString(c.hour), 2)
    \o padStart(ToString(c.minute), 2) \o padStart(ToString(c.second), 2)

\* C13: for every instant, computeBmkgEarthquakeId returns a text of exactly
\* 14 decimal digits (a 4-digit year and five 2-digit fields).
C13_Original ==
    fnPhase = "done" => Len(id1) = 14 /\ IsDigits(id1)

\* C14: for two instants at least one second apart, the identifier of the
\* earlier one, read as a number, is less than the identifier of the later.
C14_Original ==
    (fnPhase = "done" /\ OneSecondApart(earthquakeAt1, earthquakeAt2))
        => NumberLess(id1, id2)

\* C15: computeBmkgEarthquakeId(t) is YYYYMMDDHHMMSS of the civil date and
\* time of t shifted forward by seven hours, whatever boundary the shift
\* crosses.
C15_Original ==
    fnPhase = "done" => id1 = YYYYMMDDHHMMSS(SevenHoursLater(earthquakeAt1))


-----------------------------------------------------------------------------
(* Properties of the feed normalizer                                       *)

\* The elements of a feed document.
Gempa(doc) == IF IsFeedDocument(doc) THEN doc.Infogempa.gempa ELSE <<>>

ValidFeed(doc) ==
    IsFeedDocument(doc) /\ \A i \in 1..Len(Gempa(doc)) : IsValidEntry(Gempa(doc)[i])

\* The instant a raw element is dated at.
OccurredAt(entry) == DateFromIso(entry.DateTime.v)

\* a is strictly later than b.
Later(a, b) == b.day < a.day \/ (b.day = a.day /\ b.ms < a.ms)

FutureTag == [erroneousDataReason |-> "FUTURE_EARTHQUAKE"]

IsTagged(event) == "meta" \in DOMAIN event

\* The events of both parses.
AllEvents ==
    {parsed1.data[i] : i \in 1..Len(parsed1.data)}
    \cup {parsed2.data[i] : i \in 1..Len(parsed2.data)}

\* The event carries the date, place and texts of the raw element.
BuiltFrom(event, entry) ==
    /\ event.earthquakeAt = toISOString(OccurredAt(entry))
    /\ event.latitude = coordinatesTransform(entry.Coordinates.v).latitude
    /\ event.longitude = coordinatesTransform(entry.Coordinates.v).longitude
    /\ event.magnitude = parseFloat(entry.Magnitude.v)
    /\ event.depthInKm = depthTransform(entry.Kedalaman.v)
    /\ event.locationInIndonesian = entry.Wilayah.v
    /\ event.feltOnStations = entry.Dirasakan.v

\* C11: for every valid raw feed the parse succeeds and returns exactly one
\* event per raw element, the i-th event built from the i-th element: none is
\* dropped, duplicated or reordered.
C11_OneEventPerEntryInOrder ==
    (fnPhase = "done" /\ ValidFeed(rawFeed)) =>
        /\ parsed1.success
        /\ Len(parsed1.data) = Len(Gempa(rawFeed))
        /\ \A i \in 1..Len(parsed1.data) : BuiltFrom(parsed1.data[i], Gempa(rawFeed)[i])

\* A feed of two elements dated differently has been parsed.
C11_Witness ==
    /\ fnPhase = "done"
    /\ ValidFeed(rawFeed)
    /\ Len(parsed1.data) = 2
    /\ parsed1.data[1].earthquakeAt # parsed1.data[2].earthquakeAt

\* An event is tagged exactly when its element is dated strictly after now.
TagRule(parsed, doc, now) ==
    \A i \in 1..Len(parsed.data) :
        IF Later(OccurredAt(Gempa(doc)[i]), now)
        THEN IsTagged(parsed.data[i]) /\ parsed.data[i].meta = FutureTag
        ELSE ~IsTagged(parsed.data[i])

\* C12: a normalized event carries the tag FUTURE_EARTHQUAKE if and only if
\* it is dated strictly after the reference time given to
\* createBmkgApiResSchema; an event dated at or before the reference time has
\* no meta field at all.
C12_TaggedIffAfterNow ==
    fnPhase = "done" =>
        /\ TagRule(parsed1, rawFeed, now1)
        /\ TagRule(parsed2, rawFeed, now2)

\* One element is dated exactly at the first reference time and left
\* untagged, and tagged with the second reference time.
C12_Witness ==
    /\ fnPhase = "done"
    /\ \E i \in 1..Len(parsed1.data) :
          /\ OccurredAt(Gempa(rawFeed)[i]) = now1
          /\ ~IsTagged(parsed1.data[i])
          /\ IsTagged(parsed2.data[i])

\* Two events agree on the five fingerprinted values.
SameFive(a, b) ==
    /\ a.earthquakeAt = b.earthquakeAt
    /\ a.latitude = b.latitude /\ a.longitude = b.longitude
    /\ a.magnitude = b.magnitude /\ a.depthInKm = b.depthInKm

\* C16: two events that agree on the ISO date, latitude, longitude,
\* magnitude and depth have the same fingerprint, within one parse and across
\* two parses, whatever their felt-on text, location text and reference time.
C16_FingerprintOfFiveValues ==
    fnPhase = "done" =>
        \A a \in AllEvents : \A b \in AllEvents :
            SameFive(a, b) => a.fingerprintSha1 = b.fingerprintSha1

\* Two events of different parses agree on the five values and differ in the
\* felt-on text and the tag.
C16_Witness ==
    /\ fnPhase = "done"
    /\ \E i \in 1..Len(parsed1.data) : \E j \in 1..Len(parsed2.data) :
          /\ SameFive(parsed1.data[i], parsed2.data[j])
          /\ parsed1.data[i].feltOnStations # parsed2.data[j].feltOnStations
          /\ IsTagged(parsed1.data[i]) # IsTagged(parsed2.data[j])

\* C17: the shakeMapUrl stored on every event is getBmkgShakeMapUrl of the
\* event's own id, so events with the same id have the same URL.
C17_ShakeMapUrlFromOwnId ==
    fnPhase = "done" =>
        \A a \in AllEvents :
            /\ a.shakeMapUrl = getBmkgShakeMapUrl(a.bmkgEarthquakeId)
            /\ \A b \in AllEvents :
                  a.bmkgEarthquakeId = b.bmkgEarthquakeId => a.shakeMapUrl = b.shakeMapUrl

\* Two events with different ids have been produced.
C17_Witness ==
    /\ fnPhase = "done"
    /\ Len(parsed1.data) = 2
    /\ parsed1.data[1].bmkgEarthquakeId # parsed1.data[2].bmkgEarthquakeId
    /\ parsed1.data[1].shakeMapUrl = "https://static.bmkg.go.id/20251224123034.mmi.jpg"


-----------------------------------------------------------------------------
(* Properties of the merge configuration                                   *)

\* C18: a merge requested with a merge key other than bmkgEarthquakeId or
\* fingerprintSha1 fails with an error and never returns a merged collection.
C18_Original ==
    keyIn \notin MergeKeys => phase = "input"

-----------------------------------------------------------------------------
(* Nested values of a matched record                                       *)

\* The stale record, the fresh record and the merged record of SpecNested.
OldRecord == staleIn[1]

FreshRecord == freshIn[1]

MergedRecord == result[1]

OnBoth(field) == field \in DOMAIN OldRecord /\ field \in DOMAIN FreshRecord

\* The members of the two objects, a fresh member winning over a stale one.
MemberByMember(old, fresh) ==
    [k \in DOMAIN old \cup DOMAIN fresh |->
        IF k \in DOMAIN fresh THEN fresh[k] ELSE old[k]]

\* C19 as stated: a nested sequence or mapping that the stale and the fresh
\* record of a matched pair both hold is, in the output, the fresh record's
\* value as a whole.
C19_Original ==
    phase = "merged" =>
        \A field \in ObjectFields \cup ArrayFields :
            OnBoth(field) => MergedRecord[field] = FreshRecord[field]

\* C19 amended: of a matched pair, an array that both records hold is, in the
\* output, the fresh record's array as a whole; a plain object that both
\* records hold (meta, rawData) is merged member by member, a member of the
\* stale object that the fresh object lacks being kept.
C19_ArrayReplacedObjectMerged ==
    phase = "merged" =>
        /\ Len(result) = 1
        /\ \A field \in ArrayFields :
               OnBoth(field) => MergedRecord[field] = FreshRecord[field]
        /\ \A field \in ObjectFields :
               OnBoth(field) =>
                   MergedRecord[field] =
                       MemberByMember(OldRecord[field], FreshRecord[field])

\* A matched pair whose arrays differ and whose stale rawData has a member
\* the fresh rawData lacks, merged.
C19_Witness ==
    /\ phase = "merged"
    /\ keyIn = MERGE_KEY
    /\ Len(staleIn) = 1 /\ Len(freshIn) = 1
    /\ OnBoth("stations") /\ OnBoth("rawData") /\ OnBoth("meta")
    /\ Len(OldRecord.stations) > 0
    /\ Len(FreshRecord.stations) > 0
    /\ OldRecord.stations # FreshRecord.stations
    /\ "depth" \in DOMAIN OldRecord.rawData
    /\ "depth" \notin DOMAIN FreshRecord.rawData
    /\ MergedRecord.rawData.depth = OldRecord.rawData.depth
    /\ MergedRecord.stations = FreshRecord.stations

-----------------------------------------------------------------------------
(* The reference time of a pipeline run                                    *)

\* C20 as stated: the normalized events of a pipeline run do not depend on
\* the wall-clock time of the run: they are the events that the normalizer
\* gives for the run's feed at every other wall-clock time as well.
C20_Original ==
    \A r \in Runs :
        pc[r] = "parsed" =>
            \A now \in Nows :
                freshEarthquakes[r] = SchemaParse(json[r], now).data

-----------------------------------------------------------------------------
(* The anomaly tag through the merge                                       *)

\* The record carries meta.erroneousDataReason.
CarriesTag(record) ==
    "meta" \in DOMAIN record /\ "erroneousDataReason" \in DOMAIN record.meta

\* Some record of the collection with the key value carries the tag.
SomeTagged(arr, key, k) ==
    \E i \in 1..Len(arr) : arr[i][key] = k /\ CarriesTag(arr[i])

\* The last record of the collection with the key value carries the tag.
LastTagged(arr, key, k) ==
    \E i \in 1..Len(arr) :
        /\ arr[i][key] = k
        /\ CarriesTag(arr[i])
        /\ \A j \in (i + 1)..Len(arr) : arr[j][key] # k

\* C21 as stated: an output record carries the anomaly tag if and only if a
\* stale record or a fresh record with its key carries it.
C21_Original ==
    phase = "merged" =>
        \A o \in 1..Len(result) :
            CarriesTag(result[o]) <=>
                \/ SomeTagged(staleIn, keyIn, result[o][keyIn])
                \/ SomeTagged(freshIn, keyIn, result[o][keyIn])

\* C21 amended: an output record carries the anomaly tag if and only if the
\* last stale record with its key, or some fresh record with its key, carries
\* it; merging the same fresh collection into the output again keeps every
\* tag and adds none.
C21_TagOnlyFromInputs ==
    /\ Merged =>
          \A o \in 1..Len(result) :
              CarriesTag(result[o]) <=>
                  \/ LastTagged(staleIn, keyIn, result[o][keyIn])
                  \/ SomeTagged(freshIn, keyIn, result[o][keyIn])
    /\ phase = "remerged" =>
          /\ Len(result2) = Len(result)
          /\ \A o \in 1..Len(result) :
                /\ result2[o][keyIn] = result[o][keyIn]
                /\ CarriesTag(result2[o]) <=> CarriesTag(result[o])

\* A tagged stale record matched by an untagged fresh record, and an untagged
\* stale record that no fresh record matches, merged twice.
C21_Witness ==
    /\ phase = "remerged"
    /\ \E i \in 1..Len(freshIn) : \E j \in 1..Len(staleIn) :
          /\ MatchedOnce(i, j)
          /\ CarriesTag(staleIn[j]) /\ ~CarriesTag(freshIn[i])
          /\ CarriesTag(OutputFor(result2, keyIn, freshIn[i][keyIn]))
    /\ \E j \in 1..Len(staleIn) :
          /\ staleIn[j][keyIn] \notin KeySet(freshIn, keyIn)
          /\ ~CarriesTag(staleIn[j])
          /\ ~CarriesTag(OutputFor(result2, keyIn, staleIn[j][keyIn]))

-----------------------------------------------------------------------------
(* Tagging leaves the event alone                                          *)

\* The event without its meta.
WithoutMeta(event) == [f \in DOMAIN event \ {"meta"} |-> event[f]]

\* C22: the two parses of one feed with two reference times succeed or fail
\* together and give the same number of events in the same order, equal in
\* every field but meta; meta, where present, is the anomaly tag alone, and
\* the stored time of every event, tagged or not, is the time of its entry.
C22_TagOnly ==
    fnPhase = "done" =>
        /\ parsed1.success = parsed2.success
        /\ Len(parsed1.data) = Len(parsed2.data)
        /\ \A i \in 1..Len(parsed1.data) :
              /\ WithoutMeta(parsed1.data[i]) = WithoutMeta(parsed2.data[i])
              /\ IsTagged(parsed1.data[i]) => parsed1.data[i].meta = FutureTag
              /\ IsTagged(parsed2.data[i]) => parsed2.data[i].meta = FutureTag
              /\ parsed1.data[i].earthquakeAt =
                    toISOString(OccurredAt(Gempa(rawFeed)[i]))
        /\ ValidFeed(rawFeed) => parsed1.success /\ Len(parsed1.data) = Len(Gempa(rawFeed))

\* A feed of two entries, one of them after the first reference time and
\* not after the second.
C22_Witness ==
    /\ fnPhase = "done"
    /\ Len(parsed1.data) = 2
    /\ \E i \in 1..2 :
          /\ Later(OccurredAt(Gempa(rawFeed)[i]), now1)
          /\ ~Later(OccurredAt(Gempa(rawFeed)[i]), now2)
          /\ IsTagged(parsed1.data[i])
          /\ ~IsTagged(parsed2.data[i])

-----------------------------------------------------------------------------
(* Runs that overlap                                                       *)

\* The step is the write that ends run r.
WritesNow(r) == pc[r] = "merged" /\ pc'[r] = "done"

\* C23: the write of a run is computed from the snapshot the run read, not
\* from the snapshot as it stands: the written collection holds the keys the
\* run read and the keys it fetched, and holds every key of the snapshot it
\* replaces only when that snapshot is still the one the run read (which is
\* the case whenever the runs are serialized).
C23_WriteFromOwnRead ==
    [][\A r \in Runs :
          WritesNow(r) =>
              /\ KeySet(snapshot', MERGE_KEY) =
                    KeySet(staleEarthquakes[r], MERGE_KEY)
                    \cup KeySet(freshEarthquakes[r], MERGE_KEY)
              /\ staleEarthquakes[r] = snapshot =>
                    KeySet(snapshot, MERGE_KEY) \subseteq KeySet(snapshot', MERGE_KEY)
      ]_vars

\* Two runs have both written, and a record that one of them wrote is absent
\* from the snapshot.
C23_Witness ==
    /\ pc[1] = "done" /\ pc[2] = "done"
    /\ snapshot # <<>>
    /\ \E k \in everPersisted : k \notin KeySet(snapshot, MERGE_KEY)

-----------------------------------------------------------------------------
(* Properties of coordinatesSchema and depthSchema                         *)

\* The parse succeeded with the given data.
Accepted(data) == [success |-> TRUE, data |-> data]

\* C24: the text of two decimal numbers a and b joined by one comma is
\* mapped to latitude a and longitude b, each with the sign written; every
\* other text is rejected.
C24_CoordinatesParsed ==
    (fnPhase = "done" /\ schemaKind = "coordinates") =>
        /\ \A a \in Decimals : \A b \in Decimals :
              schemaArg = a.text \o "," \o b.text =>
                  schemaResult = Accepted([latitude |-> a.value, longitude |-> b.value])
        /\ schemaArg \notin {a \o "," \o b : a \in DecimalTexts, b \in DecimalTexts} =>
              schemaResult = Rejected

\* "-4.46,102.60" has been parsed to latitude -4.46 and longitude 102.6.
C24_Witness ==
    /\ fnPhase = "done"
    /\ schemaKind = "coordinates"
    /\ schemaArg = "-4.46,102.60"
    /\ schemaResult.success
    /\ schemaResult.data.latitude = [m |-> 0 - 446, e |-> 2]
    /\ schemaResult.data.longitude = [m |-> 1026, e |-> 1]

\* C25: the text of a decimal number n followed by " km" is mapped to n;
\* every other text is rejected.
C25_DepthParsed ==
    (fnPhase = "done" /\ schemaKind = "depth") =>
        /\ \A n \in Decimals :
              schemaArg = n.text \o " km" => schemaResult = Accepted(n.value)
        /\ schemaArg \notin {n \o " km" : n \in DecimalTexts} =>
              schemaResult = Rejected

\* "102 km" has been parsed to 102.
C25_Witness ==
    /\ fnPhase = "done"
    /\ schemaKind = "depth"
    /\ schemaArg = "102 km"
    /\ schemaResult = Accepted([m |-> 102, e |-> 0])

-----------------------------------------------------------------------------
(* What the merge leaves alone                                             *)

\* The stale record at j has a key that no fresh record has.
Unmatched(j) == staleIn[j][keyIn] \notin KeySet(freshIn, keyIn)

\* No later stale record has the key of the stale record at j.
LastOfItsKey(j) ==
    \A j2 \in (j + 1)..Len(staleIn) : staleIn[j2][keyIn] # staleIn[j][keyIn]

\* C26 as stated: every stale record whose key matches no fresh record is a
\* record of the output, with exactly its fields and values.
C26_Original ==
    phase = "merged" =>
        \A j \in 1..Len(staleIn) :
            Unmatched(j) => \E o \in 1..Len(result) : result[o] = staleIn[j]

\* C26 amended: no call changes the stale or the fresh collection or a
\* record of them; every stale record whose key matches no fresh record and
\* that is the last stale record with its key is the one output record with
\* that key, with exactly its fields and values, after the merge and after
\* the merge of the same fresh collection into the output.
C26_InputsAndUnmatchedUntouched ==
    [][ /\ staleIn' = staleIn
        /\ freshIn' = freshIn
        /\ \A j \in 1..Len(staleIn) :
              (Unmatched(j) /\ LastOfItsKey(j)) =>
                  /\ phase' = "merged" =>
                        /\ OutputFor(result', keyIn, staleIn[j][keyIn]) = staleIn[j]
                        /\ Cardinality({o \in 1..Len(result') :
                               result'[o][keyIn] = staleIn[j][keyIn]}) = 1
                  /\ phase' = "remerged" =>
                        OutputFor(result2', keyIn, staleIn[j][keyIn]) = staleIn[j]
      ]_vars

\* A stale record with meta that no fresh record matches, next to one that a
\* fresh record with other values matches, merged.
C26_Witness ==
    /\ phase = "merged"
    /\ Len(staleIn) = 2 /\ Len(freshIn) = 1
    /\ Unmatched(1) /\ ~Unmatched(2)
    /\ "meta" \in DOMAIN staleIn[1]
    /\ freshIn[1] # staleIn[2]
    /\ result[1] = staleIn[1]
    /\ result[2] # staleIn[2]

-----------------------------------------------------------------------------
(* One id, two fingerprints                                                *)

\* The fresh record at i has the id of the stale record at j and another
\* fingerprint.
SameIdOtherFingerprint(i, j) ==
    /\ freshIn[i].bmkgEarthquakeId = staleIn[j].bmkgEarthquakeId
    /\ freshIn[i].fingerprintSha1 # staleIn[j].fingerprintSha1

\* The records of the collection with the given value of the field.
Having(arr, field, v) == {o \in 1..Len(arr) : arr[o][field] = v}

\* C27 as stated: for a fresh record with the id of a stale record and
\* another fingerprint, the merge by fingerprint returns two records with
\* that id, and the merge by id returns one record with that id, whose
\* fingerprint is the fresh record's.
C27_Original ==
    phase = "merged" =>
        \A i \in 1..Len(freshIn) : \A j \in 1..Len(staleIn) :
            SameIdOtherFingerprint(i, j) =>
                LET withId == Having(result, "bmkgEarthquakeId", freshIn[i].bmkgEarthquakeId)
                IN /\ keyIn = "fingerprintSha1" => Cardinality(withId) = 2
                   /\ keyIn = "bmkgEarthquakeId" =>
                         /\ Cardinality(withId) = 1
                         /\ \A o \in withId :
                               result[o].fingerprintSha1 = freshIn[i].fingerprintSha1

\* C27 amended: when no other record of either collection has the fingerprint
\* of the fresh record or of the stale record, the merge by fingerprint returns
\* both records as they are, so two records with that id; when no other stale
\* and no other fresh record has that id, the merge by id returns one record
\* with that id, whose fingerprint is the fresh record's.
C27_DuplicateIdUnderFingerprintKey ==
    phase = "merged" =>
        \A i \in 1..Len(freshIn) : \A j \in 1..Len(staleIn) :
            SameIdOtherFingerprint(i, j) =>
                LET withId == Having(result, "bmkgEarthquakeId", freshIn[i].bmkgEarthquakeId)
                IN /\ ( /\ keyIn = "fingerprintSha1"
                        /\ Having(freshIn, keyIn, freshIn[i][keyIn]) = {i}
                        /\ Having(staleIn, keyIn, freshIn[i][keyIn]) = {}
                        /\ Having(staleIn, keyIn, staleIn[j][keyIn]) = {j}
                        /\ Having(freshIn, keyIn, staleIn[j][keyIn]) = {} ) =>
                         /\ \E o \in withId : result[o] = staleIn[j]
                         /\ \E o \in withId : result[o] = freshIn[i]
                         /\ Cardinality(withId) >= 2
                   /\ (keyIn = "bmkgEarthquakeId" /\ MatchedOnce(i, j)) =>
                         /\ Cardinality(withId) = 1
                         /\ \A o \in withId :
                               result[o].fingerprintSha1 = freshIn[i].fingerprintSha1

\* One stale and one fresh record with the same id and different
\* fingerprints, merged by fingerprint into two records.
C27_Witness ==
    /\ phase = "merged"
    /\ keyIn = "fingerprintSha1"
    /\ Len(staleIn) = 1 /\ Len(freshIn) = 1
    /\ SameIdOtherFingerprint(1, 1)
    /\ Len(result) = 2
    /\ result[1].bmkgEarthquakeId = result[2].bmkgEarthquakeId

-----------------------------------------------------------------------------
(* Records that share a key inside one collection                          *)

\* The last record of the collection with the key value.
LastWith(arr, key, k) ==
    arr[CHOOSE n \in 1..Len(arr) :
            arr[n][key] = k /\ \A n2 \in (n + 1)..Len(arr) : arr[n2][key] # k]

\* The later record wins on every field it has; the fields only the earlier
\* record has are kept.
Override(earlier, later) ==
    [f \in DOMAIN earlier \cup DOMAIN later |->
        IF f \in DOMAIN later THEN later[f] ELSE earlier[f]]

\* The records of a sequence folded in order.
RECURSIVE OverrideAll(_)
OverrideAll(records) ==
    IF Len(records) = 1 THEN records[1]
    ELSE Override(OverrideAll(SubSeq(records, 1, Len(records) - 1)),
                  records[Len(records)])

\* What the output record of a key is made of: the last stale record with the
\* key, if there is one, then the fresh records with the key, in order.
MadeOf(k) ==
    LET HasKey(record) == record[keyIn] = k
    IN (IF k \in KeySet(staleIn, keyIn) THEN <<LastWith(staleIn, keyIn, k)>> ELSE <<>>)
       \o SelectSeq(freshIn, HasKey)

\* The two instants fall in the same second.
SameSecond(a, b) == a.day = b.day /\ a.ms \div 1000 = b.ms \div 1000

====
